---------------------------- MODULE Spec2Model ----------------------------
(***************************************************************************)
(* A model of thermostat/data/dataset_utils.py: the Thermounit text-field  *)
(* reconstruction (tokens, fill_text_fields, heatmap), the Thermopack      *)
(* label alignment, load(), and the two aggregate statistics.              *)
(*                                                                         *)
(* Python lists are sequences; Python indices are 0-based and are kept     *)
(* 0-based wherever the code stores or uses them (PyIndex).  Lists are     *)
(* modelled by value: the code under study never mutates a list in place,  *)
(* it only rebinds attributes (setattr).                                   *)
(***************************************************************************)
EXTENDS Integers, Sequences, FiniteSets, TLC

VARIABLES unit, last, pack, loadst, agree, avg

vars == <<unit, last, pack, loadst, agree, avg>>

(***************************************************************************)
(* Bounds of the model.                                                    *)
(***************************************************************************)
MaxLen == 4

MaxInstances == 2

MaxStr == 5

MaxRows == 2

MaxRowLen == 2

MaxDatasets == 3

(***************************************************************************)
(* Generic helpers.                                                        *)
(***************************************************************************)
Min(a, b) == IF a <= b THEN a ELSE b

Abs(a) == IF a < 0 THEN -a ELSE a

SeqsUpTo(S, n) == UNION {[1..k -> S] : k \in 0..n}

RECURSIVE Concat(_)
Concat(ss) == IF ss = <<>> THEN <<>> ELSE Head(ss) \o Concat(Tail(ss))

\* Python list[idx] for 0 <= idx < len(list)
PyIndex(list, idx) == list[idx + 1]

(***************************************************************************)
(* The tokenizer (an external service): a four-entry vocabulary with one   *)
(* special non-separator token, the separator, a word-initial piece and a  *)
(* continuation piece.                                                     *)
(***************************************************************************)
Vocab == 1..4

VocabTokens == <<"[CLS]", "[SEP]", "a", "##b">>

convert_ids_to_tokens(ids) == [i \in 1..Len(ids) |-> VocabTokens[ids[i]]]

sep_token == "[SEP]"

all_special_tokens == {"[CLS]", "[SEP]"}

is_continuation(token) == token = "##b"

surface(token) == IF token = "##b" THEN "b" ELSE token

(***************************************************************************)
(* thermostat_configs: the text column of a configuration is a single name *)
(* or a list of names.                                                     *)
(***************************************************************************)
TextColumns == { [is_list |-> FALSE, name |-> "text", names |-> <<>>],
                 [is_list |-> TRUE, name |-> "", names |-> <<"premise", "hypothesis">>] }

FieldNames == {"text", "premise", "hypothesis"}

get_text_fields(text_column) ==
    IF ~text_column.is_list THEN <<text_column.name>> ELSE text_column.names

(***************************************************************************)
(* Thermounit.tokens: dict(enumerate(tokens)), as the ordered item list.   *)
(***************************************************************************)
tokens(u) ==
    LET toks == convert_ids_to_tokens(u.input_ids)
    IN  [i \in 1..Len(toks) |-> <<i - 1, toks[i]>>]

(***************************************************************************)
(* itertools.groupby(items, key): consecutive items with equal key form    *)
(* one group; the result is the list of [k, g] in order.                   *)
(***************************************************************************)
RECURSIVE groupby_from(_, _, _)
groupby_from(items, i, acc) ==
    IF i > Len(items) THEN acc
    ELSE LET k == items[i][2] # sep_token
             n == Len(acc)
         IN  IF n > 0 /\ acc[n].k = k
             THEN groupby_from(items, i + 1,
                               [acc EXCEPT ![n].g = Append(@, items[i])])
             ELSE groupby_from(items, i + 1,
                               Append(acc, [k |-> k, g |-> <<items[i]>>]))

groupby(items) == groupby_from(items, 1, <<>>)

count_special(group) ==
    Cardinality({j \in 1..Len(group) : group[j][2] \in all_special_tokens})

\* a grouping that keeps the runs holding special tokens only
text_groups_keep_all(u) ==
    LET gs   == groupby(tokens(u))
        keep == SelectSeq(gs, LAMBDA e : e.k)
    IN  [i \in 1..Len(keep) |-> keep[i].g]

\* fill_text_fields, first loop: the groups with k true that do not consist
\* of special tokens only
text_groups(u) ==
    LET gs   == groupby(tokens(u))
        keep == SelectSeq(gs, LAMBDA e : e.k /\ count_special(e.g) < Len(e.g))
    IN  [i \in 1..Len(keep) |-> keep[i].g]

(***************************************************************************)
(* thermostat.data.tokenization.fuse_subwords: a continuation piece is     *)
(* joined to the word before it; under 'salient' the word takes the        *)
(* attribution of largest magnitude among its pieces.                      *)
(***************************************************************************)
RECURSIVE fuse_from(_, _, _, _)
fuse_from(toks, atts, i, acc) ==
    IF i > Len(toks) THEN acc
    ELSE LET n == Len(acc.tokens)
         IN  IF n > 0 /\ is_continuation(toks[i])
             THEN fuse_from(toks, atts, i + 1,
                    [tokens |-> [acc.tokens EXCEPT ![n] = @ \o surface(toks[i])],
                     atts   |-> [acc.atts EXCEPT
                                   ![n] = IF Abs(atts[i]) > Abs(@) THEN atts[i] ELSE @]])
             ELSE fuse_from(toks, atts, i + 1,
                    [tokens |-> Append(acc.tokens, surface(toks[i])),
                     atts   |-> Append(acc.atts, atts[i])])

fuse_subwords(toks, atts, strategy) ==
    fuse_from(toks, atts, 1, [tokens |-> <<>>, atts |-> <<>>])

(***************************************************************************)
(* thermostat.visualize: normalize_attributions scales the scores so that  *)
(* the largest magnitude maps to the range boundary (NormScale stands for  *)
(* 1.0), keeping signs and zero; ColorToken and Heatmap.                   *)
(***************************************************************************)
NormScale == 100

MaxAbs(atts) ==
    IF atts = <<>> THEN 0
    ELSE CHOOSE m \in {Abs(atts[i]) : i \in 1..Len(atts)} :
           \A i \in 1..Len(atts) : Abs(atts[i]) <= m

normalize_attributions(atts) ==
    LET m == MaxAbs(atts)
    IN  [i \in 1..Len(atts) |->
           IF m = 0 THEN 0
           ELSE IF atts[i] < 0 THEN -((Abs(atts[i]) * NormScale) \div m)
                ELSE (atts[i] * NormScale) \div m]

ColorToken(token, attribution, text_field) ==
    [token |-> token, attribution |-> attribution, text_field |-> text_field]

RECURSIVE Pow(_, _)
Pow(a, g) == IF g = 0 THEN 1 ELSE a * Pow(a, g - 1)

Heatmap(color_tokens, gamma) ==
    [i \in 1..Len(color_tokens) |->
       LET a == color_tokens[i].attribution
           s == IF a < 0 THEN -Pow(Abs(a), gamma) ELSE Pow(a, gamma)
       IN  [token       |-> color_tokens[i].token,
            text_field  |-> color_tokens[i].text_field,
            rgb         |-> IF s > 0 THEN "red" ELSE IF s < 0 THEN "blue" ELSE "white",
            att_rounded |-> s]]

(***************************************************************************)
(* Thermounit.__init__                                                     *)
(***************************************************************************)
NoAttr == [f \in FieldNames |-> <<>>]

Thermounit(instance, predicted_label, text_column) ==
    [input_ids       |-> instance.input_ids,
     attributions    |-> instance.attributions,
     predicted_label |-> predicted_label,
     text_column     |-> text_column,
     text_fields     |-> <<>>,
     texts           |-> <<>>,
     attr_set        |-> {},
     attr_val        |-> NoAttr,
     lazy_heatmap    |-> [set |-> FALSE, val |-> <<>>]]

(***************************************************************************)
(* Thermounit.fill_text_fields.  The attributions argument is None         *)
(* (given = FALSE) or a list; the strategy is 'salient' or None.           *)
(***************************************************************************)
NoAttributions == [given |-> FALSE, val |-> <<>>]

\* setattr(self, text_field, color_tokens)
setattr_field(u, text_field, color_tokens) ==
    [u EXCEPT !.attr_set = @ \cup {text_field},
              !.attr_val = [@ EXCEPT ![text_field] = color_tokens]]

\* line 204: the non-special (idx, token) pairs of one group
non_special_tokens_enum(field_tokens) ==
    SelectSeq(field_tokens, LAMBDA t : t[2] \notin all_special_tokens)

\* a selection by rank within the field instead of by original index
selected_atts_by_rank(attributions, idxs) ==
    [j \in 1..Len(idxs) |-> PyIndex(attributions, j - 1)]

\* line 207: attributions[idx] for the idx of each non-special token
selected_atts(attributions, idxs) ==
    [j \in 1..Len(idxs) |-> PyIndex(attributions, idxs[j])]

RECURSIVE fill_loop(_, _, _, _, _)
fill_loop(u, k, groups, attributions, strategy) ==
    IF k > Min(Len(u.text_fields), Len(groups))
    THEN [unit |-> u, outcome |-> "ok"]
    ELSE LET text_field == u.text_fields[k]
             nste == non_special_tokens_enum(groups[k])
             idxs == [j \in 1..Len(nste) |-> nste[j][1]]
             non_special_tokens == [j \in 1..Len(nste) |-> nste[j][2]]
         IN  IF \E j \in 1..Len(idxs) : idxs[j] >= Len(attributions)
             THEN [unit |-> u, outcome |-> "IndexError"]
             ELSE LET sel == selected_atts(attributions, idxs)
                      fused == IF strategy # "None"
                               THEN fuse_subwords(non_special_tokens, sel, strategy)
                               ELSE [tokens |-> non_special_tokens, atts |-> sel]
                  IN  IF Len(fused.tokens) # Len(fused.atts)
                      THEN [unit |-> u, outcome |-> "AssertionError"]
                      ELSE fill_loop(
                             setattr_field(u, text_field,
                               [j \in 1..Len(fused.tokens) |->
                                  ColorToken(fused.tokens[j], fused.atts[j], text_field)]),
                             k + 1, groups, attributions, strategy)

fill_text_fields(u, attributions, strategy) ==
    LET groups == text_groups(u)
        u1     == [u EXCEPT !.text_fields = get_text_fields(u.text_column)]
        atts   == IF ~(attributions.given /\ attributions.val # <<>>)
                  THEN u.attributions ELSE attributions.val
        r      == fill_loop(u1, 1, groups, atts, strategy)
    IN  IF r.outcome # "ok" THEN r
        ELSE IF \E i \in 1..Len(u1.text_fields) : u1.text_fields[i] \notin r.unit.attr_set
        THEN [unit |-> r.unit, outcome |-> "AttributeError"]
        ELSE [unit |-> [r.unit EXCEPT !.texts =
                          [i \in 1..Len(u1.text_fields) |->
                             [name  |-> u1.text_fields[i],
                              value |-> r.unit.attr_val[u1.text_fields[i]]]]],
              outcome |-> "ok"]

(***************************************************************************)
(* Thermounit.heatmap, a lazy_property: the body runs on the first access  *)
(* that completes, with the default parameters, and its value is kept.     *)
(***************************************************************************)
NoFlip == -1

heatmap_body(u, gamma, normalize, flip_attributions_idx, fuse_subwords_strategy) ==
    LET atts0 == u.attributions
        atts1 == IF normalize THEN normalize_attributions(atts0) ELSE atts0
        atts2 == IF flip_attributions_idx = u.predicted_label.index
                 THEN [i \in 1..Len(atts1) |-> atts1[i] * (-1)] ELSE atts1
        r     == fill_text_fields(u, [given |-> TRUE, val |-> atts2],
                                  fuse_subwords_strategy)
    IN  IF r.outcome # "ok"
        THEN [unit |-> r.unit, outcome |-> r.outcome, value |-> <<>>]
        ELSE LET ctoken_fields == [i \in 1..Len(r.unit.texts) |-> r.unit.texts[i].value]
             IN  IF ctoken_fields = <<>>
                 THEN [unit |-> r.unit, outcome |-> "TypeError", value |-> <<>>]
                 ELSE [unit |-> r.unit, outcome |-> "ok",
                       value |-> Heatmap(Concat(ctoken_fields), gamma)]

lazy_property(u, computed) ==
    IF u.lazy_heatmap.set
    THEN [unit |-> u, outcome |-> "ok", value |-> u.lazy_heatmap.val]
    ELSE IF computed.outcome # "ok" THEN computed
    ELSE [unit    |-> [computed.unit EXCEPT
                         !.lazy_heatmap = [set |-> TRUE, val |-> computed.value]],
          outcome |-> "ok",
          value   |-> computed.value]

\* an accessor that is not memoized and fills the text fields only when none
\* are populated yet
heatmap_stale(u) ==
    IF u.texts = <<>>
    THEN heatmap_body(u, 1, TRUE, NoFlip, "salient")
    ELSE [unit |-> u, outcome |-> "ok",
          value |-> Heatmap(Concat([i \in 1..Len(u.texts) |-> u.texts[i].value]), 1)]

heatmap(u) == lazy_property(u, heatmap_body(u, 1, TRUE, NoFlip, "salient"))

(***************************************************************************)
(* The Thermounit state machine: one unit built from an instance, then any *)
(* sequence of fill_text_fields calls and heatmap accesses.  `last` holds  *)
(* what the latest call was given and returned, and the outcome and value  *)
(* of the first heatmap access.                                            *)
(***************************************************************************)
Idle == [pc |-> "idle"]

\* [CLS] a ##b [SEP] a ##b [SEP]
ExampleIds == <<1, 3, 4, 2, 3, 4, 2>>

AttributionProfile(p, i) ==
    IF p = 1 THEN i ELSE IF i % 2 = 1 THEN -(2 * i) ELSE i

AltAttributions(n) == [i \in 1..n |-> 10 + i]

Strategies == {"salient", "None"}

FillArgs(u) == { NoAttributions,
                 [given |-> TRUE, val |-> <<>>],
                 [given |-> TRUE, val |-> AltAttributions(Len(u.input_ids))] }

InitUnit ==
    /\ \E ids \in SeqsUpTo(Vocab, MaxLen) \cup {ExampleIds},
          d \in {-1, 0, 1}, p \in {1, 2}, tc \in TextColumns :
          /\ Len(ids) + d >= 0
          /\ unit = Thermounit(
                      [input_ids    |-> ids,
                       attributions |-> [i \in 1..(Len(ids) + d) |->
                                           AttributionProfile(p, i)]],
                      [index |-> 0], tc)
    /\ last = [op |-> "init", attributions |-> NoAttributions, strategy |-> "None",
               outcome |-> "ok", value |-> <<>>,
               first |-> [set |-> FALSE, outcome |-> "ok", val |-> <<>>]]
    /\ pack = Idle /\ loadst = Idle /\ agree = Idle /\ avg = Idle

FillTextFields ==
    /\ \E a \in FillArgs(unit), s \in Strategies :
          LET r == fill_text_fields(unit, a, s)
          IN  /\ unit' = r.unit
              /\ last' = [last EXCEPT !.op = "fill", !.attributions = a,
                                      !.strategy = s, !.outcome = r.outcome,
                                      !.value = <<>>]
    /\ UNCHANGED <<pack, loadst, agree, avg>>

HeatmapAccess ==
    /\ LET r == heatmap(unit)
       IN  /\ unit' = r.unit
           /\ last' = [last EXCEPT !.op = "heatmap", !.attributions = NoAttributions,
                                   !.strategy = "salient", !.outcome = r.outcome,
                                   !.value = r.value,
                                   !.first = IF @.set THEN @
                                             ELSE [set |-> TRUE, outcome |-> r.outcome,
                                                   val |-> r.value]]
    /\ UNCHANGED <<pack, loadst, agree, avg>>

NextUnit == FillTextFields \/ HeatmapAccess

SpecUnit == InitUnit /\ [][NextUnit]_vars

(***************************************************************************)
(* Thermopack.  hf_dataset carries the native label names and one          *)
(* [label, predictions] row per instance; the configuration carries the    *)
(* canonical label_classes.  `pack` is "raw" before the constructor ran,   *)
(* "constructed" after it, "failed" when it raised, "units" once the units *)
(* property was materialized.                                              *)
(***************************************************************************)
\* list.index(x): 0-based position of the first x; IndexOrMissing is -1 when
\* the list does not hold x (Python raises ValueError)
IndexOf(list, x) ==
    IF \E i \in 1..Len(list) : list[i] = x
    THEN (CHOOSE i \in 1..Len(list) :
            list[i] = x /\ \A j \in 1..(i - 1) : list[j] # x) - 1
    ELSE -1

\* the inverse re-indexing: native.index(canonical[label])
align_label_inverse(label_classes, label_names, label) ==
    IF label >= Len(label_classes) THEN -1
    ELSE IndexOf(label_names, PyIndex(label_classes, label))

\* a re-indexing that keeps the label when its name is not canonical
align_label_or_keep(label_classes, label_names, label) ==
    LET i == IndexOf(label_classes, PyIndex(label_names, label))
    IN  IF i < 0 THEN label ELSE i

\* lines 115-116: label_classes.index(self.label_names[instance['label']])
align_label(label_classes, label_names, label) ==
    IndexOf(label_classes, PyIndex(label_names, label))

\* Thermopack.__init__, lines 110-117
Thermopack(hf_dataset, label_classes) ==
    LET label_names == hf_dataset.names
        rows        == hf_dataset.rows
        mapped      == [i \in 1..Len(rows) |->
                          align_label(label_classes, label_names, rows[i].label)]
    IN  IF label_classes = label_names
        THEN [pc |-> "constructed", hf_dataset |-> hf_dataset,
              label_classes |-> label_classes,
              dataset |-> rows, label_names |-> label_names, units |-> <<>>,
              error |-> "none"]
        ELSE IF \E i \in 1..Len(rows) : mapped[i] < 0
        THEN [pc |-> "failed", hf_dataset |-> hf_dataset,
              label_classes |-> label_classes,
              dataset |-> rows, label_names |-> label_names, units |-> <<>>,
              error |-> "ValueError"]
        ELSE [pc |-> "constructed", hf_dataset |-> hf_dataset,
              label_classes |-> label_classes,
              dataset |-> [i \in 1..Len(rows) |-> [rows[i] EXCEPT !.label = mapped[i]]],
              label_names |-> label_classes, units |-> <<>>,
              error |-> "none"]

\* predictions.index(max(predictions))
argmax_index(predictions) ==
    LET m == CHOOSE v \in {predictions[i] : i \in 1..Len(predictions)} :
               \A i \in 1..Len(predictions) : predictions[i] <= v
    IN  IndexOf(predictions, m)

\* Thermopack.units, lines 126-143: the labels of every unit
units(p) ==
    LET pred(i) == argmax_index(p.dataset[i].predictions)
    IN  IF \E i \in 1..Len(p.dataset) :
             \/ p.dataset[i].label >= Len(p.label_names)
             \/ pred(i) >= Len(p.label_names)
        THEN [p EXCEPT !.pc = "failed", !.error = "IndexError"]
        ELSE [p EXCEPT !.pc = "units",
                !.units = [i \in 1..Len(p.dataset) |->
                   [true_label |->
                      [index |-> p.dataset[i].label,
                       name  |-> PyIndex(p.label_names, p.dataset[i].label)],
                    predicted_label |->
                      [index |-> pred(i),
                       name  |-> PyIndex(p.label_names, pred(i))]]]]

LabelNames == {"entailment", "neutral", "contradiction"}

InjectiveSeqs(S, n) ==
    {q \in [1..n -> S] : \A i, j \in 1..n : i # j => q[i] # q[j]}

NativeOrders == InjectiveSeqs(LabelNames, 3)

CanonicalOrders == InjectiveSeqs(LabelNames, 3) \cup InjectiveSeqs(LabelNames, 2)

\* prediction scores over three classes: a tie (the first index wins) or
\* the last class on top
PredictionVectors == {<<1, 1, 1>>, <<1, 1, 2>>}

InstanceRows == [label : 0..2, predictions : PredictionVectors]

InitPack ==
    /\ \E names \in NativeOrders, canonical \in CanonicalOrders,
          rows \in SeqsUpTo(InstanceRows, MaxInstances) :
          pack = [pc |-> "raw", hf_dataset |-> [names |-> names, rows |-> rows],
                  label_classes |-> canonical,
                  dataset |-> rows, label_names |-> names, units |-> <<>>,
                  error |-> "none"]
    /\ unit = Idle /\ last = Idle /\ loadst = Idle /\ agree = Idle /\ avg = Idle

Construct ==
    /\ pack.pc = "raw"
    /\ pack' = Thermopack(pack.hf_dataset, pack.label_classes)
    /\ UNCHANGED <<unit, last, loadst, agree, avg>>

Units ==
    /\ pack.pc = "constructed"
    /\ pack' = units(pack)
    /\ UNCHANGED <<unit, last, loadst, agree, avg>>

NextPack == Construct \/ Units

SpecPack == InitPack /\ [][NextPack]_vars

(***************************************************************************)
(* load(config_str).  Strings are sequences of one-character strings, so   *)
(* that str.split('-') and '-'.join are computed.  list_configs() is the   *)
(* list of names of thermostat_configs.builder_configs.                    *)
(***************************************************************************)
Chars == {"d", "m", "e", "-"}

\* str.split('-')
RECURSIVE split(_)
split(c) ==
    IF \A i \in 1..Len(c) : c[i] # "-" THEN <<c>>
    ELSE LET h == CHOOSE i \in 1..Len(c) :
                    c[i] = "-" /\ \A j \in 1..(i - 1) : c[j] # "-"
         IN  <<SubSeq(c, 1, h - 1)>> \o split(SubSeq(c, h + 1, Len(c)))

\* '-'.join(parts)
RECURSIVE join(_)
join(parts) ==
    IF parts = <<>> THEN <<>>
    ELSE IF Len(parts) = 1 THEN parts[1]
    ELSE parts[1] \o <<"-">> \o join(Tail(parts))

\* '-'.join(c.split('-')[:2])
dataset_model(c) == join(SubSeq(split(c), 1, Min(2, Len(split(c)))))

\* f'{c.split("-")[0]}-{c.split("-")[-1]}'
dataset_explainer(c) == split(c)[1] \o <<"-">> \o split(c)[Len(split(c))]

InList(x, list) == \E i \in 1..Len(list) : list[i] = x

\* the dataset the hub serves for a known configuration, and its label_classes
HubDataset ==
    [names |-> <<"contradiction", "entailment", "neutral">>,
     rows  |-> <<[label |-> 0, predictions |-> <<1, 1, 2>>],
                 [label |-> 2, predictions |-> <<1, 1, 1>>]>>]

HubLabelClasses == <<"entailment", "neutral", "contradiction">>

load_result(p) ==
    [outcome |-> IF p.pc = "constructed" THEN "Thermopack" ELSE p.error, pack |-> p]

\* a load that tries the partial identifiers before the full names
load_partial_first(config_str, configs) ==
    IF ~(config_str.given /\ config_str.val # <<>>)
    THEN [outcome |-> "AssertionError", pack |-> Idle]
    ELSE IF InList(config_str.val, [i \in 1..Len(configs) |-> dataset_model(configs[i])])
    THEN [outcome |-> "NotImplementedError", pack |-> Idle]
    ELSE IF InList(config_str.val,
                   [i \in 1..Len(configs) |-> dataset_explainer(configs[i])])
    THEN [outcome |-> "NotImplementedError", pack |-> Idle]
    ELSE IF InList(config_str.val, configs)
    THEN load_result(Thermopack(HubDataset, HubLabelClasses))
    ELSE [outcome |-> "ValueError", pack |-> Idle]

\* load, lines 36-57
load(config_str, configs) ==
    IF ~(config_str.given /\ config_str.val # <<>>)
    THEN [outcome |-> "AssertionError", pack |-> Idle]
    ELSE IF InList(config_str.val, configs)
    THEN load_result(Thermopack(HubDataset, HubLabelClasses))
    ELSE IF InList(config_str.val, [i \in 1..Len(configs) |-> dataset_model(configs[i])])
    THEN [outcome |-> "NotImplementedError", pack |-> Idle]
    ELSE IF InList(config_str.val,
                   [i \in 1..Len(configs) |-> dataset_explainer(configs[i])])
    THEN [outcome |-> "NotImplementedError", pack |-> Idle]
    ELSE [outcome |-> "ValueError", pack |-> Idle]

\* registries: three-part names; a name that is the dataset+model part of
\* another; names with fewer parts
Registries ==
    { << <<"d", "-", "m", "-", "e">>, <<"e", "-", "m", "-", "d">> >>,
      << <<"d", "-", "m", "-", "e">>, <<"d", "-", "m">> >>,
      << <<"d">>, <<"m", "-", "e">> >> }

InitLoad ==
    /\ \E configs \in Registries,
          cs \in {[given |-> FALSE, val |-> <<>>]}
                   \cup {[given |-> TRUE, val |-> v] : v \in SeqsUpTo(Chars, MaxStr)} :
          loadst = [pc |-> "ready", configs |-> configs, config_str |-> cs,
                    outcome |-> "none"]
    /\ unit = Idle /\ last = Idle /\ pack = Idle /\ agree = Idle /\ avg = Idle

Load ==
    /\ loadst.pc = "ready"
    /\ LET r == load(loadst.config_str, loadst.configs)
       IN  /\ loadst' = [loadst EXCEPT !.pc = "done", !.outcome = r.outcome]
           /\ pack' = r.pack
    /\ UNCHANGED <<unit, last, agree, avg>>

NextLoad == Load

SpecLoad == InitLoad /\ [][NextLoad]_vars

(***************************************************************************)
(* Aggregate statistics.  A Python dict is the list of its [key, value]    *)
(* items in insertion order; assigning to a key it holds replaces the      *)
(* value in place.  tokenizer.decode of one id is its token string;        *)
(* decode of an id list with skip_special_tokens joins the words of the    *)
(* non-special tokens with spaces.                                         *)
(***************************************************************************)
all_special_ids == {1, 2}

decode(id) == VocabTokens[id]

RECURSIVE decode_skip_special(_)
decode_skip_special(ids) ==
    IF ids = <<>> THEN ""
    ELSE LET rest == decode_skip_special(Tail(ids))
             t    == VocabTokens[Head(ids)]
         IN  IF Head(ids) \in all_special_ids THEN rest
             ELSE IF rest = "" THEN surface(t)
             ELSE IF Len(ids) > 1 /\ is_continuation(VocabTokens[ids[2]])
             THEN surface(t) \o rest
             ELSE surface(t) \o " " \o rest

HasKey(d, key) == \E i \in 1..Len(d) : d[i].key = key

KeyPos(d, key) == CHOOSE i \in 1..Len(d) : d[i].key = key

DictSet(d, key, value) ==
    IF HasKey(d, key) THEN [d EXCEPT ![KeyPos(d, key)].value = value]
    ELSE Append(d, [key |-> key, value |-> value])

\* token_atts[key].append(score) on a defaultdict(list)
DictAppend(d, key, score) ==
    IF HasKey(d, key) THEN [d EXCEPT ![KeyPos(d, key)].value = Append(@, score)]
    ELSE Append(d, [key |-> key, value |-> <<score>>])

RECURSIVE Sum(_)
Sum(scores) == IF scores = <<>> THEN 0 ELSE Head(scores) + Sum(Tail(scores))

\* a mean is kept as the fraction sum/len; MeanLess(a, b) is a < b
MeanLess(a, b) == a.sum * b.len < b.sum * a.len

MeanEq(a, b) == a.sum * b.len = b.sum * a.len

(***************************************************************************)
(* avg_attribution_stat, lines 324-344                                     *)
(***************************************************************************)
\* lines 333-338: the score is negated for label 0
signed_score(label, attribution_score) ==
    IF label = 0 THEN -attribution_score ELSE attribution_score

RECURSIVE accumulate_row(_, _, _)
accumulate_row(token_atts, row, p) ==
    IF p > Min(Len(row.input_ids), Len(row.attributions)) THEN token_atts
    ELSE accumulate_row(
           DictAppend(token_atts, decode(row.input_ids[p]),
                      signed_score(row.label, row.attributions[p])),
           row, p + 1)

RECURSIVE accumulate(_, _, _)
accumulate(token_atts, dataset, i) ==
    IF i > Len(dataset) THEN token_atts
    ELSE accumulate(accumulate_row(token_atts, dataset[i], 1), dataset, i + 1)

\* stable insertion of x behind every item whose mean is not smaller
insert_desc(sorted, x) ==
    LET before == Cardinality({i \in 1..Len(sorted) :
                     \A j \in 1..i : ~MeanLess(sorted[j].value, x.value)})
    IN  SubSeq(sorted, 1, before) \o <<x>> \o SubSeq(sorted, before + 1, Len(sorted))

RECURSIVE sort_desc_from(_, _, _)
sort_desc_from(items, i, acc) ==
    IF i > Len(items) THEN acc
    ELSE sort_desc_from(items, i + 1, insert_desc(acc, items[i]))

\* stable insertion of x behind every item whose mean is not larger
insert_asc(sorted, x) ==
    LET before == Cardinality({i \in 1..Len(sorted) :
                     \A j \in 1..i : ~MeanLess(x.value, sorted[j].value)})
    IN  SubSeq(sorted, 1, before) \o <<x>> \o SubSeq(sorted, before + 1, Len(sorted))

RECURSIVE sort_asc_from(_, _, _)
sort_asc_from(items, i, acc) ==
    IF i > Len(items) THEN acc
    ELSE sort_asc_from(items, i + 1, insert_asc(acc, items[i]))

\* an ascending sort, reversed afterwards
sorted_asc_then_reversed(items) ==
    LET a == sort_asc_from(items, 1, <<>>)
    IN  [i \in 1..Len(a) |-> a[Len(a) + 1 - i]]

\* sorted(items, key=..., reverse=True): stable, largest first
sorted_reverse(items) == sort_desc_from(items, 1, <<>>)

avg_attribution_stat(thermostat_dataset) ==
    LET token_atts == accumulate(<<>>, thermostat_dataset, 1)
        avgs == [i \in 1..Len(token_atts) |->
                   [key   |-> token_atts[i].key,
                    value |-> [sum |-> Sum(token_atts[i].value),
                               len |-> Len(token_atts[i].value)]]]
    IN  sorted_reverse(avgs)

AvgScore(k, p) == IF k = 1 THEN p ELSE 1

AvgRows ==
    {[input_ids |-> ids, attributions |-> [p \in 1..Len(ids) |-> AvgScore(k, p)],
      label |-> l] : ids \in SeqsUpTo({3, 4}, MaxRowLen), k \in {1, 2}, l \in {0, 1}}

InitAvg ==
    /\ \E ds \in SeqsUpTo(AvgRows, MaxRows) :
          avg = [pc |-> "ready", dataset |-> ds, result |-> <<>>]
    /\ unit = Idle /\ last = Idle /\ pack = Idle /\ loadst = Idle /\ agree = Idle

AvgAttributionStat ==
    /\ avg.pc = "ready"
    /\ avg' = [avg EXCEPT !.pc = "done", !.result = avg_attribution_stat(avg.dataset)]
    /\ UNCHANGED <<unit, last, pack, loadst, agree>>

NextAvg == AvgAttributionStat

SpecAvg == InitAvg /\ [][NextAvg]_vars

(***************************************************************************)
(* explainer_agreement_stat, lines 347-378.  Every dataset holds the same  *)
(* instances (input_ids) under an explainer name of its own.               *)
(***************************************************************************)
MaxOf(xs) == CHOOSE m \in {xs[i] : i \in 1..Len(xs)} : \A i \in 1..Len(xs) : xs[i] <= m

MinOf(xs) == CHOOSE m \in {xs[i] : i \in 1..Len(xs)} : \A i \in 1..Len(xs) : m <= xs[i]

MinLen(lists) ==
    IF lists = <<>> THEN 0
    ELSE CHOOSE m \in {Len(lists[i]) : i \in 1..Len(lists)} :
           \A i \in 1..Len(lists) : m <= Len(lists[i])

\* lines 351-355: all_explainers_atts[explainer_id] = td['attributions']
RECURSIVE collect_atts(_, _, _)
collect_atts(d, datasets, i) ==
    IF i > Len(datasets) THEN d
    ELSE collect_atts(DictSet(d, datasets[i].explainer, datasets[i].attributions),
                      datasets, i + 1)

\* lines 366-377: the token positions of one row
RECURSIVE dissim_row(_, _, _, _, _)
dissim_row(tokens_dissim, ids, atts, names, idx) ==
    IF idx >= Min(Len(ids), MinLen(atts)) THEN tokens_dissim
    ELSE IF PyIndex(ids, idx) \in all_special_ids
    THEN dissim_row(tokens_dissim, ids, atts, names, idx + 1)
    ELSE LET att_explainers == [e \in 1..Len(atts) |-> PyIndex(atts[e], idx)]
         IN  dissim_row(
               DictSet(tokens_dissim,
                       <<decode(PyIndex(ids, idx)), decode_skip_special(ids), idx>>,
                       [dissim |-> MaxOf(att_explainers) - MinOf(att_explainers),
                        atts   |-> [e \in 1..Len(atts) |->
                                      [key |-> names[e], value |-> att_explainers[e]]]]),
               ids, atts, names, idx + 1)

\* lines 362-363: zip over the rows of the first dataset and of every
\* explainer's attributions
RECURSIVE dissim_rows(_, _, _, _)
dissim_rows(tokens_dissim, input_ids, all_atts, r) ==
    IF r > Min(Len(input_ids), MinLen([e \in 1..Len(all_atts) |-> all_atts[e].value]))
    THEN tokens_dissim
    ELSE dissim_rows(
           dissim_row(tokens_dissim, input_ids[r],
                      [e \in 1..Len(all_atts) |-> all_atts[e].value[r]],
                      [e \in 1..Len(all_atts) |-> all_atts[e].key], 0),
           input_ids, all_atts, r + 1)

\* line 378: sorted by dissim, largest first, stable
RECURSIVE sort_dissim_from(_, _, _)
sort_dissim_from(items, i, acc) ==
    IF i > Len(items) THEN acc
    ELSE LET x == items[i]
             before == Cardinality({k \in 1..Len(acc) :
                          \A j \in 1..k : acc[j].value.dissim >= x.value.dissim})
         IN  sort_dissim_from(items, i + 1,
               SubSeq(acc, 1, before) \o <<x>> \o SubSeq(acc, before + 1, Len(acc)))

explainer_agreement_stat(thermostat_datasets) ==
    IF ~(Len(thermostat_datasets) > 1)
    THEN [outcome |-> "AssertionError", result |-> <<>>]
    ELSE LET all_explainers_atts == collect_atts(<<>>, thermostat_datasets, 1)
             tokens_dissim == dissim_rows(<<>>, thermostat_datasets[1].input_ids,
                                          all_explainers_atts, 1)
         IN  [outcome |-> "ok", result |-> sort_dissim_from(tokens_dissim, 1, <<>>)]

ExplainerNames == <<"lig", "occ", "lime">>

AgreeScore(k, i, p) == k * i + p

InitAgree ==
    /\ \E insts \in SeqsUpTo(SeqsUpTo({1, 3, 4}, MaxRowLen), MaxRows),
          n \in 0..MaxDatasets :
          \E ks \in [1..n -> {1, 3}] :
             agree = [pc |-> "ready",
                      datasets |-> [e \in 1..n |->
                         [explainer    |-> ExplainerNames[e],
                          input_ids    |-> insts,
                          attributions |-> [i \in 1..Len(insts) |->
                                              [p \in 1..Len(insts[i]) |->
                                                 AgreeScore(ks[e], i, p)]]]],
                      outcome |-> "none", result |-> <<>>]
    /\ unit = Idle /\ last = Idle /\ pack = Idle /\ loadst = Idle /\ avg = Idle

ExplainerAgreementStat ==
    /\ agree.pc = "ready"
    /\ LET r == explainer_agreement_stat(agree.datasets)
       IN  agree' = [agree EXCEPT !.pc = "done", !.outcome = r.outcome,
                                  !.result = r.result]
    /\ UNCHANGED <<unit, last, pack, loadst, avg>>

NextAgree == ExplainerAgreementStat

SpecAgree == InitAgree /\ [][NextAgree]_vars

(***************************************************************************)
(* The token runs of a unit, stated over positions (1-based): a run is an  *)
(* interval of non-separator tokens that cannot be extended; it survives   *)
(* when it holds a non-special token.                                      *)
(***************************************************************************)
Toks(u) == convert_ids_to_tokens(u.input_ids)

IsRun(u, a, b) ==
    LET t == Toks(u)
    IN  /\ a <= b
        /\ \A p \in a..b : t[p] # sep_token
        /\ (a = 1 \/ t[a - 1] = sep_token)
        /\ (b = Len(t) \/ t[b + 1] = sep_token)

SurvivingRuns(u) ==
    {r \in (1..Len(u.input_ids)) \X (1..Len(u.input_ids)) :
        /\ IsRun(u, r[1], r[2])
        /\ \E p \in r[1]..r[2] : Toks(u)[p] \notin all_special_tokens}

RunAt(u, i) ==
    CHOOSE r \in SurvivingRuns(u) :
        Cardinality({q \in SurvivingRuns(u) : q[1] < r[1]}) = i - 1

RECURSIVE Ascending(_)
Ascending(S) ==
    IF S = {} THEN <<>>
    ELSE LET m == CHOOSE x \in S : \A y \in S : x <= y
         IN  <<m>> \o Ascending(S \ {m})

ContentPositions(u, r) ==
    Ascending({p \in r[1]..r[2] : Toks(u)[p] \notin all_special_tokens})

DeclaredFields(u) == get_text_fields(u.text_column)

FieldTokens(v) == [j \in 1..Len(v) |-> v[j].token]

FillDone == last.op = "fill" /\ last.outcome = "ok"

\* C1: when fill_text_fields completes, declared field i holds the non-special
\* tokens of the i-th surviving maximal run of non-separator tokens, in order
\* (fused into words under 'salient'), for every i up to the number of fields
\* and runs; runs of special tokens only are skipped.
C1_RunsToFields ==
    FillDone =>
      /\ Len(unit.texts) = Len(DeclaredFields(unit))
      /\ \A i \in 1..Min(Len(DeclaredFields(unit)), Cardinality(SurvivingRuns(unit))) :
           LET pos == ContentPositions(unit, RunAt(unit, i))
               raw == [j \in 1..Len(pos) |-> Toks(unit)[pos[j]]]
           IN  /\ unit.texts[i].name = DeclaredFields(unit)[i]
               /\ FieldTokens(unit.texts[i].value) =
                    IF last.strategy = "None" THEN raw
                    ELSE fuse_subwords(raw, [j \in 1..Len(raw) |-> 0], "salient").tokens

\* the example [CLS] A B [SEP] C D [SEP] with two declared fields
C1_Witness ==
    /\ FillDone /\ last.strategy = "None"
    /\ unit.input_ids = ExampleIds
    /\ Len(unit.texts) = 2
    /\ FieldTokens(unit.texts[1].value) = <<"a", "##b">>
    /\ FieldTokens(unit.texts[2].value) = <<"a", "##b">>

\* C2: a fill_text_fields call on a unit whose number of surviving runs
\* differs from the number of declared text fields never completes normally.
C2_MismatchIsError ==
    (last.op = "fill"
       /\ Cardinality(SurvivingRuns(unit)) # Len(DeclaredFields(unit)))
      => last.outcome # "ok"

\* C3: for a unit whose attributions and input_ids differ in length, no call
\* completes and no text field is ever populated.
C3_LengthMismatchRejected ==
    Len(unit.attributions) # Len(unit.input_ids)
      => /\ unit.attr_set = {} /\ unit.texts = <<>>
         /\ (last.op # "init" => last.outcome # "ok")

\* C9: every heatmap access ends as the first one did and yields the same
\* value, whatever fill_text_fields calls came in between.
C9_HeatmapIdempotent ==
    last.op = "heatmap"
      => /\ last.first.set
         /\ last.outcome = last.first.outcome
         /\ last.value = last.first.val

\* a heatmap access answered after fill_text_fields re-populated the text
\* fields from the raw attributions
C9_Witness ==
    /\ last.op = "heatmap" /\ last.outcome = "ok"
    /\ unit.texts # <<>> /\ unit.texts[1].value # <<>>
    /\ last.value # <<>>
    /\ unit.texts[1].value[1].attribution # last.value[1].att_rounded

\* C10: after fill_text_fields without fusion, field i holds exactly the
\* non-special tokens of run i in position order, none of them special, each
\* with the attribution stored at its own position of the full sequence.
C10_AlignedAttributions ==
    (FillDone /\ last.strategy = "None") =>
      \A i \in 1..Len(unit.texts) :
        LET v   == unit.texts[i].value
            pos == ContentPositions(unit, RunAt(unit, i))
            eff == IF last.attributions.given /\ last.attributions.val # <<>>
                   THEN last.attributions.val ELSE unit.attributions
        IN  /\ Len(v) = Len(pos)
            /\ \A j \in 1..Len(v) :
                 /\ v[j].token \notin all_special_tokens
                 /\ v[j].token = Toks(unit)[pos[j]]
                 /\ v[j].attribution = eff[pos[j]]

\* a token surfaced behind a special token and a separator, with the
\* attribution of its own position
C10_Witness ==
    /\ FillDone /\ last.strategy = "None" /\ ~last.attributions.given
    /\ unit.input_ids = <<1, 2, 3>>
    /\ unit.texts[1].value = <<ColorToken("a", unit.attributions[3], "text")>>

(***************************************************************************)
(* Label alignment.                                                        *)
(***************************************************************************)
NativeName(i) == pack.hf_dataset.names[pack.hf_dataset.rows[i].label + 1]

\* C4: once constructed, labels are unchanged when the native order is the
\* canonical one; otherwise label_names is the canonical list and every
\* label is the canonical index of its native name; every unit's true-label
\* name is the instance's native label name.
C4_LabelsAligned ==
    pack.pc \in {"constructed", "units"} =>
      LET native == pack.hf_dataset.names
          rows   == pack.hf_dataset.rows
      IN  /\ Len(pack.dataset) = Len(rows)
          /\ native = pack.label_classes =>
               \A i \in 1..Len(rows) : pack.dataset[i].label = rows[i].label
          /\ native # pack.label_classes =>
               /\ pack.label_names = pack.label_classes
               /\ \A i \in 1..Len(rows) :
                    /\ pack.dataset[i].label \in 0..(Len(pack.label_classes) - 1)
                    /\ pack.label_classes[pack.dataset[i].label + 1] = NativeName(i)
          /\ pack.pc = "units" =>
               /\ Len(pack.units) = Len(rows)
               /\ \A i \in 1..Len(rows) : pack.units[i].true_label.name = NativeName(i)

\* native [contradiction, entailment, neutral], canonical [entailment,
\* neutral, contradiction]: native index 0 became canonical index 2
C4_Witness ==
    /\ pack.pc = "units"
    /\ pack.hf_dataset.names = <<"contradiction", "entailment", "neutral">>
    /\ pack.label_classes = <<"entailment", "neutral", "contradiction">>
    /\ Len(pack.dataset) = 2
    /\ pack.hf_dataset.rows[1].label = 0
    /\ pack.dataset[1].label = 2
    /\ pack.units[1].true_label = [index |-> 2, name |-> "contradiction"]

AbsentNames ==
    {pack.hf_dataset.names[i] : i \in 1..Len(pack.hf_dataset.names)}
      \ {pack.label_classes[i] : i \in 1..Len(pack.label_classes)}

Hyphens(c) == {i \in 1..Len(c) : c[i] = "-"}

NthHyphen(c, n) ==
    CHOOSE i \in Hyphens(c) : Cardinality({j \in Hyphens(c) : j < i}) = n - 1

\* the name up to its second hyphen (the whole name when it has fewer)
DatasetModelPart(c) ==
    IF Cardinality(Hyphens(c)) < 2 THEN c ELSE SubSeq(c, 1, NthHyphen(c, 2) - 1)

\* the text before the first hyphen, a hyphen, the text after the last one
DatasetExplainerPart(c) ==
    IF Hyphens(c) = {} THEN c \o <<"-">> \o c
    ELSE SubSeq(c, 1, NthHyphen(c, 1) - 1) \o <<"-">>
           \o SubSeq(c, NthHyphen(c, Cardinality(Hyphens(c))) + 1, Len(c))

IsFullName == InList(loadst.config_str.val, loadst.configs)

IsPartial ==
    \E i \in 1..Len(loadst.configs) :
        \/ loadst.config_str.val = DatasetModelPart(loadst.configs[i])
        \/ loadst.config_str.val = DatasetExplainerPart(loadst.configs[i])

\* C6: load ends in exactly the outcome its argument calls for: an assertion
\* failure for a missing or empty string, a Thermopack for a full name,
\* NotImplementedError for a partial identifier that is no full name, and
\* ValueError for every other string.
C6_LoadOutcome ==
    loadst.pc = "done" =>
      loadst.outcome =
        IF ~loadst.config_str.given \/ loadst.config_str.val = <<>>
        THEN "AssertionError"
        ELSE IF IsFullName THEN "Thermopack"
        ELSE IF IsPartial THEN "NotImplementedError"
        ELSE "ValueError"

\* the dataset+explainer identifier d-e of the configuration d-m-e
C6_Witness ==
    /\ loadst.pc = "done"
    /\ loadst.config_str.val = <<"d", "-", "e">>
    /\ ~IsFullName
    /\ loadst.outcome = "NotImplementedError"

(***************************************************************************)
(* Aggregate statistics, stated over the token occurrences <<row, pos>>.   *)
(***************************************************************************)
RECURSIVE SumOver(_, _)
SumOver(S, f) ==
    IF S = {} THEN 0
    ELSE LET x == CHOOSE y \in S : TRUE IN f[x] + SumOver(S \ {x}, f)

AvgOccurrences ==
    {o \in (1..Len(avg.dataset)) \X (1..MaxRowLen + 1) :
        o[2] <= Len(avg.dataset[o[1]].input_ids)}

AvgToken(o) == decode(avg.dataset[o[1]].input_ids[o[2]])

AvgOccOf(t) == {o \in AvgOccurrences : AvgToken(o) = t}

AvgAdjusted ==
    [o \in AvgOccurrences |->
       IF avg.dataset[o[1]].label = 0 THEN -avg.dataset[o[1]].attributions[o[2]]
       ELSE avg.dataset[o[1]].attributions[o[2]]]

\* o comes before q in the iteration over rows and positions
Earlier(o, q) == o[1] < q[1] \/ (o[1] = q[1] /\ o[2] < q[2])

FirstSeenBefore(t, w) ==
    \E o \in AvgOccOf(t) : \A q \in AvgOccOf(w) : Earlier(o, q)

\* C8: the result holds one pair per distinct decoded token string; its mean
\* is the arithmetic mean of the label-adjusted scores of all occurrences of
\* that string; means do not increase along the result, and equal means
\* keep the order in which their strings were first met.
C8_AvgAttribution ==
    avg.pc = "done" =>
      LET r == avg.result
      IN  /\ {r[j].key : j \in 1..Len(r)} = {AvgToken(o) : o \in AvgOccurrences}
          /\ Len(r) = Cardinality({AvgToken(o) : o \in AvgOccurrences})
          /\ \A j \in 1..Len(r) :
               MeanEq(r[j].value,
                      [sum |-> SumOver(AvgOccOf(r[j].key), AvgAdjusted),
                       len |-> Cardinality(AvgOccOf(r[j].key))])
          /\ \A j, k \in 1..Len(r) :
               j < k => /\ ~MeanLess(r[j].value, r[k].value)
                        /\ MeanEq(r[j].value, r[k].value)
                             => FirstSeenBefore(r[j].key, r[k].key)

\* two strings of equal negative mean, each met twice, label 0 involved
C8_Witness ==
    /\ avg.pc = "done" /\ Len(avg.result) = 2
    /\ MeanEq(avg.result[1].value, avg.result[2].value)
    /\ avg.result[1].key = "##b"
    /\ avg.result[1].value.len = 2 /\ avg.result[1].value.sum < 0
    /\ \E i \in 1..Len(avg.dataset) : avg.dataset[i].label = 0

AgreeInstances == IF agree.datasets = <<>> THEN <<>> ELSE agree.datasets[1].input_ids

AgreePositions ==
    {o \in (1..Len(AgreeInstances)) \X (1..MaxRowLen + 1) :
        /\ o[2] <= Len(AgreeInstances[o[1]])
        /\ AgreeInstances[o[1]][o[2]] \notin all_special_ids}

Spread(o) ==
    LET xs == [e \in 1..Len(agree.datasets) |->
                 agree.datasets[e].attributions[o[1]][o[2]]]
    IN  MaxOf(xs) - MinOf(xs)

\* C7: fewer than two datasets are rejected; otherwise the result holds one
\* entry per non-special token position of every instance, keyed by (token
\* string, decoded context, position), its dissim the spread of the
\* datasets' scores at that position, sorted by non-increasing dissim.
C7_AgreementPerPosition ==
    agree.pc = "done" =>
      IF Len(agree.datasets) < 2 THEN agree.outcome = "AssertionError"
      ELSE LET r == agree.result
           IN  /\ agree.outcome = "ok"
               /\ Len(r) = Cardinality(AgreePositions)
               /\ \A o \in AgreePositions :
                    \E j \in 1..Len(r) :
                      /\ r[j].key = <<decode(AgreeInstances[o[1]][o[2]]),
                                      decode_skip_special(AgreeInstances[o[1]]),
                                      o[2] - 1>>
                      /\ r[j].value.dissim = Spread(o)
               /\ \A j, k \in 1..Len(r) :
                    j < k => r[j].value.dissim >= r[k].value.dissim

=============================================================================
